---- MODULE Spec2Model ----
(***************************************************************************)
(* svg-present: a layered SVG is split into one document per slide, each   *)
(* slide is rendered by an external process, and the renders are merged.   *)
(*                                                                         *)
(* A document (ElementTree) is a sequence of element records below the svg *)
(* root: element e has a parent (0 is the svg root), the inkscape          *)
(* groupmode and label attributes, a style attribute and a text.  The      *)
(* children of an element are the elements naming it as parent, in         *)
(* ascending order (document order).  A Tree node is named <<d, e>>:       *)
(* <<0, 0>> is the presentation built by main, <<d, 0>> the Tree that      *)
(* load_presentation returns for the d-th loaded document, <<d, e>> the    *)
(* Tree that layer builds for element e of that document.                  *)
(***************************************************************************)
EXTENDS Integers, Sequences, FiniteSets, TLC

VARIABLES
    pc,         \* where main is: "load", "split", "join", "merge", "done", "crashed"
    files,      \* the documents find_svgs has still to yield, in its order
    docs,       \* the documents loaded so far (Tree.tree of each <<d, 0>>)
    children,   \* Tree.children of every Tree node
    visible,    \* Tree._visible of every Tree node
    style,      \* the style attribute of every element <<d, e>> of the loaded documents
    stack,      \* the frames of the generator Tree.__iter__, outermost first
    yields,     \* the nodes the walk has yielded so far (its length is enumerate's count)
    svg,        \* cache directory: slot index -> [bytes, mtime] of <index>.svg
    pdf,        \* cache directory: slot index -> the bytes <index>.pdf was rendered from
    wlog,       \* the Tree.write calls made at the current yield point
    tasks,      \* the render tasks handed to the pool, in submission order
    consumed,   \* the file names the merge step consumed, in its order
    run,        \* the number of the current run over the shared cache directory
    nfail,      \* how many renders have failed so far
    threads,    \* the number of worker processes of the pool
    names,      \* find_svgs: the list of paths it was called with
    fstack,     \* find_svgs: its stack of paths (the last one is popped next)
    found,      \* find_svgs: the paths yielded so far
    css,        \* css_to_dict: the style string it is called with
    parsed,     \* css_to_dict: what the call gave (a dict, or the exception raised)
    printed,    \* dict_to_css: the string it returned for the parsed dict
    svgfile,    \* load_presentation: the elements ElementTree.parse reads from the file
    heap,       \* load_presentation: the elements of the document being resolved
    uses,       \* load_presentation: the use elements the for loop has still to visit
    parent_map, \* load_presentation: parent_map, taken before the loop
    error,      \* the exception that ended load_presentation's resolution loop
    confs       \* per generator made by iter(presentation): the flags and styles at its yields

treeVars == <<docs, children, visible, style>>
walkVars == <<stack, yields>>
cacheVars == <<svg, pdf>>
poolVars == <<tasks, consumed, run, nfail, threads>>
findVars == <<names, fstack, found>>
cssVars == <<css, parsed, printed>>
refVars == <<svgfile, heap, uses, parent_map, error>>
vars == <<pc, files, docs, children, visible, style, stack, yields, svg, pdf,
          wlog, tasks, consumed, run, nfail, threads, names, fstack, found,
          css, parsed, printed, svgfile, heap, uses, parent_map, error, confs>>

(***************************************************************************)
(* Bounds                                                                  *)
(***************************************************************************)
MaxElems == 3
MaxDocs == 2
MaxCalls == 2
MaxRuns == 2
MaxThreads == 2
MaxFail == 1
MaxNames == 3
MaxLen == 6
MaxRefElems == 3
LeftoverSlot == 10

(***************************************************************************)
(* Documents                                                               *)
(***************************************************************************)
Root == <<0, 0>>

Elem(p, kind) ==
    [parent |-> p, groupmode |-> kind.groupmode, haslabel |-> kind.haslabel,
     label |-> kind.label, style |-> kind.style, text |-> kind.text]

\* A layer group labelled "a", an unmarked shape, and a shape whose text holds a
\* carriage return (written &#13; in the file).
LayerKind == [groupmode |-> "layer", haslabel |-> TRUE, label |-> <<"a">>,
              style |-> "display:inline", text |-> ""]
ShapeKind == [groupmode |-> "", haslabel |-> FALSE, label |-> <<>>,
              style |-> "fill:red", text |-> "x"]
ShapeCRKind == [groupmode |-> "", haslabel |-> FALSE, label |-> <<>>,
                style |-> "fill:red", text |-> "x<CR>y"]
KindsTree == {LayerKind, ShapeKind, ShapeCRKind}

RECURSIVE DocsOfSize(_, _)
DocsOfSize(kinds, n) ==
    IF n = 0 THEN {<<>>}
    ELSE {Append(D, Elem(p, k)) : D \in DocsOfSize(kinds, n - 1), p \in 0..(n - 1), k \in kinds}

\* The forests of at most k documents holding at most budget elements together.
RECURSIVE Forests(_, _, _)
Forests(kinds, k, budget) ==
    IF k = 0 THEN {<<>>}
    ELSE {<<>>} \cup UNION {UNION {{<<D>> \o F : F \in Forests(kinds, k - 1, budget - n)} :
                                    D \in DocsOfSize(kinds, n)} : n \in 0..budget}

ChildElems(D, e) == SelectSeq([i \in 1..Len(D) |-> i], LAMBDA i : D[i].parent = e)

\* bool(element): an Element is true when it has child elements.
ElementTruthy(D, e) == Len(ChildElems(D, e)) # 0

(***************************************************************************)
(* layer and load_presentation                                             *)
(***************************************************************************)
NoTree == [ret |-> "None", sub |-> <<>>]
Raised == [ret |-> "IndexError", sub |-> <<>>]

RECURSIVE layer(_, _, _), layerChildren(_, _, _, _)
\* for child in element: if subtree := layer(child): children.append(subtree)
layerChildren(D, d, cs, acc) ==
    IF cs = <<>> \/ acc.raised THEN acc
    ELSE LET r == layer(D, d, Head(cs))
         IN layerChildren(D, d, Tail(cs),
                IF r.ret = "IndexError" THEN [acc EXCEPT !.raised = TRUE]
                ELSE IF r.ret = "None" THEN acc
                ELSE [acc EXCEPT !.children = Append(@, <<d, Head(cs)>>),
                                 !.sub = r.sub @@ @])

\* ret is "None", "Tree" or "IndexError"; sub maps every Tree node built below
\* (and including) this element to its children.
layer(D, d, e) ==
    IF D[e].groupmode # "layer" THEN NoTree
    ELSE IF ~D[e].haslabel THEN NoTree
    ELSE IF D[e].label = <<>> THEN Raised
    ELSE IF D[e].label[1] = "(" /\ D[e].label[Len(D[e].label)] = ")" THEN NoTree
    ELSE LET acc == layerChildren(D, d, ChildElems(D, e),
                                  [raised |-> FALSE, children |-> <<>>, sub |-> <<>>])
         IN IF acc.raised THEN Raised
            ELSE [ret |-> "Tree", sub |-> (<<d, e>> :> acc.children) @@ acc.sub]

DisplayOf(value) == IF value THEN "display:inline" ELSE "display:none"

\* The visible setter's effect on the element's style attribute.
StyleAfterSet(D, e, value, old) ==
    IF ElementTruthy(D, e) THEN DisplayOf(value) ELSE old

\* The part of load_presentation that builds the Tree of document D, loaded d-th.
load_presentation(D, d) ==
    LET acc == layerChildren(D, d, ChildElems(D, 0),
                             [raised |-> FALSE, children |-> <<>>, sub |-> <<>>])
    IN [raised |-> acc.raised,
        sub |-> (<<d, 0>> :> acc.children) @@ acc.sub,
        style |-> [n \in {<<d, e>> : e \in 1..Len(D)} |->
                     IF n \in DOMAIN acc.sub
                     THEN StyleAfterSet(D, n[2], FALSE, D[n[2]].style)
                     ELSE D[n[2]].style]]

(***************************************************************************)
(* Tree.visible (setter) and Tree.__iter__                                 *)
(***************************************************************************)
\* A walk state w holds the generator's frames and the fields the walk assigns.
\* A frame is [node, k, st]: k children of node are done; st is "new" (the body has
\* not run), "yield" (suspended at yield self) or "loop" (in the for loop).
Walk == [stack |-> stack, visible |-> visible, style |-> style]

Top(s) == s[Len(s)]

SetVisible(w, n, value) ==
    [w EXCEPT !.visible[n] = value,
              !.style = IF n[2] # 0
                        THEN [@ EXCEPT ![n] = StyleAfterSet(docs[n[1]], n[2], value, @)]
                        ELSE @]

IsYieldPointAlways(n) == TRUE

\* if not self.children: yield self
IsYieldPoint(n) == children[n] = <<>>

IterEnterElementsOnly(w) ==
    LET n == Top(w.stack).node
    IN [(IF n[2] # 0 THEN SetVisible(w, n, TRUE) ELSE w) EXCEPT
            !.stack[Len(w.stack)].st = IF IsYieldPoint(n) THEN "yield" ELSE "loop"]

\* self.visible = True, up to the yield or the for loop
IterEnter(w) ==
    LET n == Top(w.stack).node
    IN [SetVisible(w, n, TRUE) EXCEPT
            !.stack[Len(w.stack)].st = IF IsYieldPoint(n) THEN "yield" ELSE "loop"]

\* next() on the generator suspended at yield self
IterResume(w) == [w EXCEPT !.stack[Len(w.stack)].st = "loop"]

\* for child in self.children: yield from child
IterDescend(w) ==
    LET f == Top(w.stack)
    IN [w EXCEPT !.stack = Append(@, [node |-> children[f.node][f.k + 1], k |-> 0, st |-> "new"])]

IterExitNoReset(w) ==
    LET rest == SubSeq(w.stack, 1, Len(w.stack) - 1)
    IN [w EXCEPT !.stack = IF rest = <<>> THEN <<>>
                           ELSE [rest EXCEPT ![Len(rest)].k = @ + 1]]

\* self.visible = False, and back to the parent's loop
IterExit(w) ==
    LET rest == SubSeq(w.stack, 1, Len(w.stack) - 1)
    IN [SetVisible(w, Top(w.stack).node, FALSE) EXCEPT
            !.stack = IF rest = <<>> THEN <<>>
                      ELSE [rest EXCEPT ![Len(rest)].k = @ + 1]]

IterStep(w) ==
    LET f == Top(w.stack)
    IN IF f.st = "new" THEN IterEnter(w)
       ELSE IF f.st = "yield" THEN IterResume(w)
       ELSE IF f.k < Len(children[f.node]) THEN IterDescend(w)
       ELSE IterExit(w)

Suspended(w) == w.stack # <<>> /\ Top(w.stack).st = "yield"

\* One next() of the for loop over the presentation: the generator runs to its
\* next yield, or to its end (the stack is empty).
RECURSIVE RunToYield(_)
RunToYield(w) ==
    LET w1 == IterStep(w)
    IN IF w1.stack = <<>> \/ Suspended(w1) THEN w1 ELSE RunToYield(w1)

(***************************************************************************)
(* Tree.write                                                              *)
(***************************************************************************)
RootToken == [depth |-> 0, groupmode |-> "", haslabel |-> FALSE, label |-> <<>>,
              style |-> "", text |-> ""]

Token(sty, d, e, depth) ==
    [depth |-> depth, groupmode |-> docs[d][e].groupmode,
     haslabel |-> docs[d][e].haslabel, label |-> docs[d][e].label,
     style |-> sty[<<d, e>>], text |-> docs[d][e].text]

RECURSIVE SerializeElemsKeepAll(_, _, _, _)
SerializeElemsKeepAll(sty, d, cs, depth) ==
    IF cs = <<>> THEN <<>>
    ELSE <<Token(sty, d, Head(cs), depth)>>
         \o SerializeElemsKeepAll(sty, d, ChildElems(docs[d], Head(cs)), depth + 1)
         \o SerializeElemsKeepAll(sty, d, Tail(cs), depth)

\* The serialized siblings cs (and what is below them) of the deep copy, after
\* every element whose own style is exactly display:none was removed from its parent.
RECURSIVE SerializeElems(_, _, _, _)
SerializeElems(sty, d, cs, depth) ==
    IF cs = <<>> THEN <<>>
    ELSE (IF sty[<<d, Head(cs)>>] = "display:none" THEN <<>>
          ELSE <<Token(sty, d, Head(cs), depth)>>
               \o SerializeElems(sty, d, ChildElems(docs[d], Head(cs)), depth + 1))
         \o SerializeElems(sty, d, Tail(cs), depth)

\* ElementTree.tostring(root) of the pruned copy of document d.
Filtered(sty, d) == <<RootToken>> \o SerializeElems(sty, d, ChildElems(docs[d], 0), 1)

\* The XML parser reads a literal carriage return in character data as a line feed.
NormalizeText(t) == IF t = "x<CR>y" THEN "x<LF>y" ELSE t

\* ElementTree.tostring(ElementTree.parse(path).getroot()) of a file holding bytes.
ParseThenTostring(bytes) ==
    [i \in DOMAIN bytes |-> [bytes[i] EXCEPT !.text = NormalizeText(@)]]

WriteFile(dir, path, bytes) ==
    [p \in DOMAIN dir \cup {path} |->
        IF p = path
        THEN [bytes |-> bytes, mtime |-> IF path \in DOMAIN dir THEN dir[path].mtime + 1 ELSE 1]
        ELSE dir[p]]

\* child.visible and child.tree, for child in self.children
ShownDocs(vis) == SelectSeq(children[Root], LAMBDA c : vis[c])

TreeWriteAlways(vis, sty, path, dir) ==
    IF ShownDocs(vis) = <<>> THEN [changed |-> FALSE, dir |-> dir]
    ELSE [changed |-> TRUE, dir |-> WriteFile(dir, path, Filtered(sty, ShownDocs(vis)[1][1]))]

\* Tree.write(path) on the presentation, the cache directory being dir.
TreeWrite(vis, sty, path, dir) ==
    IF ShownDocs(vis) = <<>> THEN [changed |-> FALSE, dir |-> dir]
    ELSE LET new == Filtered(sty, ShownDocs(vis)[1][1])
         IN IF path \in DOMAIN dir /\ ParseThenTostring(dir[path].bytes) = new
            THEN [changed |-> FALSE, dir |-> dir]
            ELSE [changed |-> TRUE, dir |-> WriteFile(dir, path, new)]

(***************************************************************************)
(* main: loading the documents                                             *)
(***************************************************************************)
\* css_to_dict has not been called; load_presentation is resolving no document.
NotParsed == [raised |-> "", dict |-> <<>>]

NoCssCall == css = <<>> /\ parsed = NotParsed /\ printed = <<>>

NoResolution == svgfile = <<>> /\ heap = <<>> /\ uses = <<>> /\ parent_map = <<>> /\ error = ""

\* main starts: nothing is loaded; left is what the cache directory holds.
InitWith(fs, left) ==
    /\ pc = "load"
    /\ files = fs
    /\ docs = <<>>
    /\ children = (Root :> <<>>)
    /\ visible = (Root :> FALSE)
    /\ style = <<>>
    /\ stack = <<>>
    /\ yields = <<>>
    /\ svg = left
    /\ pdf = [i \in DOMAIN left |-> left[i].bytes]
    /\ wlog = <<>>
    /\ tasks = <<>>
    /\ consumed = [format |-> "", names |-> <<>>]
    /\ run = 1
    /\ nfail = 0
    /\ threads = 0
    /\ names = <<>>
    /\ fstack = <<>>
    /\ found = <<>>
    /\ confs = <<>>
    /\ NoCssCall
    /\ NoResolution

\* sub_presentation = load_presentation(file); presentation.children.append(...)
Load ==
    /\ pc = "load"
    /\ files # <<>>
    /\ LET d == Len(docs) + 1
           r == load_presentation(Head(files), d)
       IN IF r.raised
          THEN /\ pc' = "crashed"
               /\ UNCHANGED <<files, treeVars>>
          ELSE /\ pc' = pc
               /\ files' = Tail(files)
               /\ docs' = Append(docs, Head(files))
               /\ children' = [r.sub @@ children EXCEPT ![Root] = Append(@, <<d, 0>>)]
               /\ visible' = [n \in DOMAIN r.sub |-> FALSE] @@ visible
               /\ style' = r.style @@ style
    /\ UNCHANGED <<walkVars, cacheVars, wlog, poolVars, findVars, cssVars, refVars, confs>>

\* iter(presentation): the generator is created, not yet run.
StartWalk ==
    /\ pc = "load"
    /\ files = <<>>
    /\ pc' = "split"
    /\ stack' = <<[node |-> Root, k |-> 0, st |-> "new"]>>
    /\ UNCHANGED <<files, treeVars, yields, cacheVars, wlog, poolVars, findVars, cssVars, refVars, confs>>

(***************************************************************************)
(* The walk step by step, with Tree.write called at its yield points       *)
(***************************************************************************)
SetWalk(w) ==
    /\ stack' = w.stack
    /\ visible' = w.visible
    /\ style' = w.style

IterEnterStep ==
    /\ pc = "split"
    /\ stack # <<>>
    /\ Top(stack).st = "new"
    /\ SetWalk(IterEnter(Walk))
    /\ yields' = IF Suspended(IterEnter(Walk)) THEN Append(yields, Top(stack).node) ELSE yields
    /\ UNCHANGED <<pc, files, docs, children, cacheVars, wlog, poolVars, findVars, cssVars, refVars, confs>>

IterResumeStep ==
    /\ pc = "split"
    /\ Suspended(Walk)
    /\ SetWalk(IterResume(Walk))
    /\ wlog' = <<>>
    /\ UNCHANGED <<pc, files, docs, children, yields, cacheVars, poolVars, findVars, cssVars, refVars, confs>>

IterDescendStep ==
    /\ pc = "split"
    /\ stack # <<>>
    /\ Top(stack).st = "loop"
    /\ Top(stack).k < Len(children[Top(stack).node])
    /\ SetWalk(IterDescend(Walk))
    /\ UNCHANGED <<pc, files, docs, children, yields, cacheVars, wlog, poolVars, findVars, cssVars, refVars, confs>>

IterExitStep ==
    /\ pc = "split"
    /\ stack # <<>>
    /\ Top(stack).st = "loop"
    /\ Top(stack).k = Len(children[Top(stack).node])
    /\ SetWalk(IterExit(Walk))
    /\ pc' = IF Len(stack) = 1 THEN "walked" ELSE pc
    /\ UNCHANGED <<files, docs, children, yields, cacheVars, wlog, poolVars, findVars, cssVars, refVars, confs>>

\* presentation.write(path) at a yield point, the path being slot 0 every time.
WriteCall ==
    /\ pc = "split"
    /\ Suspended(Walk)
    /\ Len(wlog) < MaxCalls
    /\ LET r == TreeWrite(visible, style, 0, svg)
           had == 0 \in DOMAIN svg
       IN /\ svg' = r.dir
          /\ wlog' = Append(wlog, [ret |-> r.changed,
                                   had |-> had,
                                   old |-> IF had THEN svg[0].bytes ELSE <<>>,
                                   mtime0 |-> IF had THEN svg[0].mtime ELSE 0,
                                   mtime1 |-> IF 0 \in DOMAIN r.dir THEN r.dir[0].mtime ELSE 0])
    /\ UNCHANGED <<pc, files, treeVars, walkVars, pdf, poolVars, findVars, cssVars, refVars, confs>>

InitTree == \E fs \in Forests(KindsTree, MaxDocs, MaxElems) : InitWith(fs, <<>>)

NextTree ==
    \/ Load
    \/ StartWalk
    \/ IterEnterStep
    \/ IterResumeStep
    \/ IterDescendStep
    \/ IterExitStep
    \/ WriteCall

SpecTree == InitTree /\ [][NextTree]_vars

(***************************************************************************)
(* Claims about the walk                                                   *)
(***************************************************************************)
ParentOf(n) == CHOOSE p \in DOMAIN children : \E i \in DOMAIN children[p] : children[p][i] = n

RECURSIVE ChainTo(_)
ChainTo(n) == IF n = Root THEN {Root} ELSE {n} \cup ChainTo(ParentOf(n))

VisibleSet == {n \in DOMAIN visible : visible[n]}

\* C1: at every yield point of a walk started with every node hidden, the nodes
\* whose visible flag is true are exactly the chain from the walked root down to the
\* yielded node, which has no children; every other node is hidden.
C1_ChainVisibleAtYield ==
    (pc = "split" /\ Suspended(Walk)) =>
        /\ children[Top(stack).node] = <<>>
        /\ VisibleSet = ChainTo(Top(stack).node)

C1_Witness ==
    /\ pc = "split"
    /\ Suspended(Walk)
    /\ Len(yields) >= 2
    /\ Len(docs) >= 2
    /\ Cardinality(ChainTo(Top(stack).node)) >= 3
    /\ VisibleSet = ChainTo(Top(stack).node)

RECURSIVE PreorderLeaves(_), PreorderLeavesOf(_)
PreorderLeavesOf(cs) ==
    IF cs = <<>> THEN <<>> ELSE PreorderLeaves(Head(cs)) \o PreorderLeavesOf(Tail(cs))

PreorderLeaves(n) == IF children[n] = <<>> THEN <<n>> ELSE PreorderLeavesOf(children[n])

\* C2: a walk run to completion has yielded exactly the childless nodes, each once,
\* in pre-order (children in list order); that is the root alone when the root has
\* no children, and never a node that has children.
C2_YieldsArePreorderLeaves ==
    (pc = "walked") => yields = PreorderLeaves(Root)

C2_Witness ==
    /\ pc = "walked"
    /\ Len(yields) >= 3
    /\ Len(docs) >= 2
    /\ \E n \in DOMAIN children : n[2] # 0 /\ children[n] # <<>>
    /\ yields = PreorderLeaves(Root)

C2_WitnessRootOnly ==
    /\ pc = "walked"
    /\ yields = <<Root>>

(***************************************************************************)
(* Claims about Tree.write                                                 *)
(***************************************************************************)
CurrentBytes == Filtered(style, ShownDocs(visible)[1][1])

HasCarriageReturn(bytes) == \E i \in DOMAIN bytes : bytes[i].text = "x<CR>y"

TwoCallsMade == pc = "split" /\ Suspended(Walk) /\ Len(wlog) >= 2 /\ ShownDocs(visible) # <<>>

ChangedThenUnchanged ==
    /\ wlog[1].ret
    /\ ~wlog[2].ret
    /\ wlog[2].mtime1 = wlog[2].mtime0

\* C4 as stated: two calls in a row with the same configuration and the same slot,
\* the slot missing or holding different content before the first, return Changed
\* then Unchanged, and the second call does not touch the file.
C4_Original ==
    (TwoCallsMade /\ (~wlog[1].had \/ wlog[1].old # CurrentBytes)) => ChangedThenUnchanged

\* C4 amended: the same, for a filtered document without a carriage return in its
\* text, the slot missing or holding a document that parses to a different tree.
C4_ChangedThenUnchanged ==
    (/\ TwoCallsMade
     /\ ~HasCarriageReturn(CurrentBytes)
     /\ (~wlog[1].had \/ ParseThenTostring(wlog[1].old) # CurrentBytes))
        => ChangedThenUnchanged

C4_Witness ==
    /\ TwoCallsMade
    /\ ~HasCarriageReturn(CurrentBytes)
    /\ wlog[1].had
    /\ ParseThenTostring(wlog[1].old) # CurrentBytes
    /\ Len(CurrentBytes) >= 3
    /\ ChangedThenUnchanged

(***************************************************************************)
(* main: the split loop, the render pool and the merge                     *)
(***************************************************************************)
LayerNamed(c) == [LayerKind EXCEPT !.label = <<c>>]

\* Layer I holding the layers A and B, each with a shape in it.
DocIntroAB ==
    <<Elem(0, LayerNamed("I")), Elem(1, LayerNamed("A")), Elem(2, ShapeKind),
      Elem(1, LayerNamed("B")), Elem(4, ShapeKind)>>

\* The same with nothing drawn in layer B: B has no child elements.
DocEmptyLeaf ==
    <<Elem(0, LayerNamed("I")), Elem(1, LayerNamed("A")), Elem(2, ShapeKind),
      Elem(1, LayerNamed("B"))>>

\* A document without layers.
DocPlain == <<Elem(0, ShapeKind)>>

\* A layer whose label is the empty string.
DocBlankLabel == <<Elem(0, [LayerKind EXCEPT !.label = <<>>])>>

DriverForests ==
    {<<>>, <<DocIntroAB>>, <<DocEmptyLeaf>>, <<DocPlain, DocIntroAB>>, <<DocBlankLabel>>}

\* What an earlier run over a longer presentation left in the cache directory.
LeftoverBytes == <<RootToken>>
Leftovers == {<<>>, (LeftoverSlot :> [bytes |-> LeftoverBytes, mtime |-> 1])}

InitDriver ==
    \E fs \in DriverForests, left \in Leftovers : InitWith(fs, left)

\* pool = Pool(args.threads); os.makedirs(args.cache); the for loop starts.
CreatePool ==
    /\ pc = "load"
    /\ files = <<>>
    /\ pc' = "split"
    /\ stack' = <<[node |-> Root, k |-> 0, st |-> "new"]>>
    /\ \E n \in 1..MaxThreads : threads' = n
    /\ UNCHANGED <<files, treeVars, yields, cacheVars, wlog, tasks, consumed, run, nfail,
                   findVars, cssVars, refVars, confs>>

SplitStepAlwaysSubmit ==
    /\ pc = "split"
    /\ LET w == RunToYield(Walk)
           count == Len(yields)
           r == TreeWrite(w.visible, w.style, count, svg)
       IN /\ SetWalk(w)
          /\ IF w.stack = <<>>
             THEN /\ pc' = "join"
                  /\ UNCHANGED <<yields, svg, tasks>>
             ELSE /\ pc' = pc
                  /\ yields' = Append(yields, Top(w.stack).node)
                  /\ svg' = r.dir
                  /\ tasks' = Append(tasks, [idx |-> count, st |-> "queued"])
    /\ UNCHANGED <<files, docs, children, pdf, wlog, consumed, run, nfail, threads, findVars, cssVars, refVars, confs>>

\* One iteration of the for loop: the next yield, presentation.write(svg) and, if
\* it reports a change, pool.apply_async; or the end of the loop.
SplitStep ==
    /\ pc = "split"
    /\ LET w == RunToYield(Walk)
           count == Len(yields)
           r == TreeWrite(w.visible, w.style, count, svg)
       IN /\ SetWalk(w)
          /\ IF w.stack = <<>>
             THEN /\ pc' = "join"
                  /\ UNCHANGED <<yields, svg, tasks>>
             ELSE /\ pc' = pc
                  /\ yields' = Append(yields, Top(w.stack).node)
                  /\ svg' = r.dir
                  /\ tasks' = IF r.changed
                              THEN Append(tasks, [idx |-> count, st |-> "queued"])
                              ELSE tasks
    /\ UNCHANGED <<files, docs, children, pdf, wlog, consumed, run, nfail, threads, findVars, cssVars, refVars, confs>>

Running == {i \in DOMAIN tasks : tasks[i].st = "running"}
Queued == {i \in DOMAIN tasks : tasks[i].st = "queued"}

\* A free worker takes the oldest queued task.
PoolStart ==
    /\ Queued # {}
    /\ Cardinality(Running) < threads
    /\ LET i == CHOOSE q \in Queued : \A o \in Queued : q <= o
       IN tasks' = [tasks EXCEPT ![i].st = "running"]
    /\ UNCHANGED <<pc, files, treeVars, walkVars, cacheVars, wlog, consumed, run, nfail,
                   threads, findVars, cssVars, refVars, confs>>

\* run(["inkscape", "-o", pdf, svg]) ends having written the pdf from the svg.
RenderDone ==
    \E i \in Running :
        /\ tasks' = [tasks EXCEPT ![i].st = "ok"]
        /\ pdf' = [p \in DOMAIN pdf \cup {tasks[i].idx} |->
                     IF p = tasks[i].idx THEN svg[p].bytes ELSE pdf[p]]
        /\ UNCHANGED <<pc, files, treeVars, walkVars, svg, wlog, consumed, run, nfail,
                       threads, findVars, cssVars, refVars, confs>>

\* inkscape fails: no pdf is written, nothing is raised (stderr goes to DEVNULL).
RenderFailed ==
    \E i \in Running :
        /\ nfail < MaxFail
        /\ nfail' = nfail + 1
        /\ tasks' = [tasks EXCEPT ![i].st = "failed"]
        /\ UNCHANGED <<pc, files, treeVars, walkVars, cacheVars, wlog, consumed, run,
                       threads, findVars, cssVars, refVars, confs>>

PoolJoinedNoWait == TRUE

\* pool.close(); pool.join() returns once every submitted task has ended.
PoolJoined == \A i \in DOMAIN tasks : tasks[i].st \in {"ok", "failed"}

Join ==
    /\ pc = "join"
    /\ PoolJoined
    /\ pc' = "merge"
    /\ UNCHANGED <<files, treeVars, walkVars, cacheVars, wlog, poolVars, findVars, cssVars, refVars, confs>>

\* str(count): the decimal digits of a slot index, and int() of them.
RECURSIVE Str(_)
Str(i) == IF i < 10 THEN <<i>> ELSE Append(Str(i \div 10), i % 10)

RECURSIVE IntOf(_)
IntOf(ds) == IF Len(ds) = 1 THEN ds[1]
             ELSE 10 * IntOf(SubSeq(ds, 1, Len(ds) - 1)) + ds[Len(ds)]

\* cache_dir.glob("*.pdf"), cache_dir.glob("*.svg"): the stems of the files there.
Glob(dir) == {Str(i) : i \in DOMAIN dir}

\* A key ordering names of one or two digits as strings are ordered.
SortKeyLexical(name) == 11 * name[1] + (IF Len(name) > 1 THEN name[2] + 1 ELSE 0)

\* key=lambda x: int(x.name.split(".")[0])
SortKey(name) == IntOf(name)

RECURSIVE Sorted(_)
Sorted(S) ==
    IF S = {} THEN <<>>
    ELSE LET m == CHOOSE x \in S : \A y \in S : SortKey(x) <= SortKey(y)
         IN <<m>> \o Sorted(S \ {m})

\* merge_slides: merge_pdf reads the pdfs, merge_html the svgs, in sorted order;
\* any other format raises ValueError.
Merge ==
    /\ pc = "merge"
    /\ \E f \in {"pdf", "html", "odp"} :
          IF f = "odp"
          THEN pc' = "crashed" /\ UNCHANGED consumed
          ELSE /\ pc' = "done"
               /\ consumed' = [format |-> f,
                               names |-> Sorted(Glob(IF f = "pdf" THEN pdf ELSE svg))]
    /\ UNCHANGED <<files, treeVars, walkVars, cacheVars, wlog, tasks, run, nfail, threads,
                   findVars, cssVars, refVars, confs>>

\* The program is run again on the same cache directory.
NextRun ==
    /\ pc \in {"done", "crashed"}
    /\ run < MaxRuns
    /\ run' = run + 1
    /\ pc' = "load"
    /\ \E fs \in DriverForests : files' = fs
    /\ docs' = <<>>
    /\ children' = (Root :> <<>>)
    /\ visible' = (Root :> FALSE)
    /\ style' = <<>>
    /\ stack' = <<>>
    /\ yields' = <<>>
    /\ tasks' = <<>>
    /\ consumed' = [format |-> "", names |-> <<>>]
    /\ threads' = 0
    /\ UNCHANGED <<cacheVars, wlog, nfail, findVars, cssVars, refVars, confs>>

Next ==
    \/ Load
    \/ CreatePool
    \/ SplitStep
    \/ PoolStart
    \/ RenderDone
    \/ RenderFailed
    \/ Join
    \/ Merge
    \/ NextRun

Spec == InitDriver /\ [][Next]_vars

(***************************************************************************)
(* Claims about a run of main                                              *)
(***************************************************************************)
\* The leaves of the forest (a presentation without documents has none).
Leaves == IF docs = <<>> THEN <<>> ELSE PreorderLeaves(Root)

SplitOver == pc \in {"join", "merge", "done"}

StartedEmpty == run = 1 /\ LeftoverSlot \notin DOMAIN svg

\* The styles a slide is meant to be cut from: the layers on the leaf's chain are
\* shown, every other recognized layer is hidden, nothing else is touched.
IntendedStyle(leaf) ==
    [n \in {m \in DOMAIN style : m[1] = leaf[1]} |->
        IF n \in DOMAIN children THEN DisplayOf(n \in ChainTo(leaf))
        ELSE docs[n[1]][n[2]].style]

IntendedSlide(leaf) == Filtered(IntendedStyle(leaf), leaf[1])

SlotsHoldIntendedSlides ==
    /\ DOMAIN svg = 0..(Len(Leaves) - 1)
    /\ \A i \in 0..(Len(Leaves) - 1) : svg[i].bytes = IntendedSlide(Leaves[i + 1])

\* C3: after the split loop of a run started on an empty cache directory, exactly
\* the slots 0..N-1 are written, and slot i holds the document of the i-th leaf in
\* pre-order with the leaf's chain of layers visible and every other recognized
\* layer removed.
C3_SlotsHoldLeafSlides ==
    (SplitOver /\ StartedEmpty) => SlotsHoldIntendedSlides

\* The same holds whenever every recognized layer has at least one child element.
NoChildlessLayer ==
    \A n \in DOMAIN children : n[2] # 0 => ElementTruthy(docs[n[1]], n[2])

C3_HoldsWithoutChildlessLayers ==
    (SplitOver /\ StartedEmpty /\ NoChildlessLayer) => SlotsHoldIntendedSlides

C3_WitnessIntroAB ==
    /\ SplitOver
    /\ StartedEmpty
    /\ docs = <<DocIntroAB>>
    /\ DOMAIN svg = {0, 1}
    /\ SlotsHoldIntendedSlides

AllRendersSucceeded == \A i \in DOMAIN tasks : tasks[i].st = "ok"

\* C5: at the end of every run whose submitted renders all succeeded, every slide
\* index i in 0..N-1 has a rendered artifact produced from the content slot i holds,
\* whatever earlier runs over the same cache directory did.
C5_RenderedFromCurrentSlot ==
    (pc \in {"merge", "done"} /\ AllRendersSucceeded) =>
        \A i \in 0..(Len(Leaves) - 1) :
            /\ i \in DOMAIN svg
            /\ i \in DOMAIN pdf
            /\ pdf[i] = svg[i].bytes

\* C7: when the merge step is reached, every render task submitted during the split
\* loop has ended (finished or failed); none is queued or running.
C7_MergeAfterAllRenders ==
    (pc \in {"merge", "done"}) => \A i \in DOMAIN tasks : tasks[i].st \in {"ok", "failed"}

C7_Witness ==
    /\ pc = "merge"
    /\ Len(tasks) >= 3
    /\ \E i \in DOMAIN tasks : tasks[i].st = "failed"
    /\ \E i \in DOMAIN tasks : tasks[i].st = "ok"

MergedDir == IF consumed.format = "pdf" THEN pdf ELSE svg

\* C8: the merge step consumes the numbered files of the cache directory, each once,
\* in ascending numeric order of their indices (2 before 10), whatever the order in
\* which the render tasks ran and ended.
C8_MergeOrderNumeric ==
    (pc = "done") =>
        /\ \A i, j \in DOMAIN consumed.names :
              i < j => IntOf(consumed.names[i]) < IntOf(consumed.names[j])
        /\ {IntOf(consumed.names[i]) : i \in DOMAIN consumed.names} = DOMAIN MergedDir

C8_Witness ==
    /\ pc = "done"
    /\ consumed.format = "pdf"
    /\ \E i, j \in DOMAIN consumed.names :
          /\ i < j
          /\ consumed.names[i] = <<2>>
          /\ consumed.names[j] = Str(LeftoverSlot)

(***************************************************************************)
(* layer and the visible setter on documents with every sort of label      *)
(***************************************************************************)
LayerLabelled(l) == [groupmode |-> "layer", haslabel |-> TRUE, label |-> l,
                  style |-> "display:inline", text |-> ""]
LayerUnlabelled == [groupmode |-> "layer", haslabel |-> FALSE, label |-> <<>>,
                    style |-> "display:inline", text |-> ""]
GroupLabelled == [groupmode |-> "", haslabel |-> TRUE, label |-> <<"a">>,
                  style |-> "fill:red", text |-> ""]

\* Labels "a", "" , "(s)", "(" and "(a".
KindsLayer ==
    {LayerLabelled(<<"a">>), LayerLabelled(<<>>), LayerLabelled(<<"(", "s", ")">>),
     LayerLabelled(<<"(">>), LayerLabelled(<<"(", "a">>), LayerUnlabelled, GroupLabelled}

InitLayer ==
    \E n \in 1..MaxElems : \E D \in DocsOfSize(KindsLayer, n) : InitWith(<<D>>, <<>>)

Loaded == pc = "load" /\ files = <<>>

\* tree.visible = value, on any Tree that was built
AssignVisible ==
    /\ Loaded
    /\ \E n \in DOMAIN children \ {Root}, value \in BOOLEAN :
          LET w == SetVisible(Walk, n, value)
          IN /\ visible' = w.visible
             /\ style' = w.style
    /\ UNCHANGED <<pc, files, docs, children, walkVars, cacheVars, wlog, poolVars, findVars, cssVars, refVars, confs>>

NextLayer ==
    \/ Load
    \/ AssignVisible

SpecLayer == InitLayer /\ [][NextLayer]_vars

\* The Tree nodes that own a document element.
LayerNodes == {n \in DOMAIN children : n[2] # 0}

\* C6: for every Tree node with an underlying element, whatever the number of the
\* element's child elements, after construction and after any assignments to its
\* visible flag the element's style is display:inline when the flag is true and
\* display:none when it is false.
C6_StyleReflectsVisible ==
    \A n \in LayerNodes : style[n] = DisplayOf(visible[n])

\* The same holds for the nodes whose element has at least one child element.
C6_HoldsWithChildElements ==
    \A n \in LayerNodes :
        ElementTruthy(docs[n[1]], n[2]) => style[n] = DisplayOf(visible[n])

C6_WitnessToggled ==
    \E n \in LayerNodes :
        /\ ElementTruthy(docs[n[1]], n[2])
        /\ visible[n]
        /\ style[n] = "display:inline"

Parenthesized(l) == l # <<>> /\ l[1] = "(" /\ l[Len(l)] = ")"

\* What the layer builder is said to return absent for.
Absent(el) == el.groupmode # "layer" \/ ~el.haslabel \/ Parenthesized(el.label)

\* layer was called on element e of document D: every element above it got a node.
RECURSIVE Called(_, _)
Called(D, e) ==
    D[e].parent = 0 \/ (~Absent(D[D[e].parent]) /\ Called(D, D[e].parent))

RECURSIVE UnderParenthesized(_, _)
UnderParenthesized(D, e) ==
    \/ (D[e].groupmode = "layer" /\ D[e].haslabel /\ Parenthesized(D[e].label))
    \/ (D[e].parent # 0 /\ UnderParenthesized(D, D[e].parent))

Ascending(s) == \A i, j \in DOMAIN s : i < j => s[i][2] < s[j][2]

BuiltAsStated ==
    /\ pc # "crashed"
    /\ Loaded =>
          /\ \A d \in DOMAIN docs : \A e \in DOMAIN docs[d] :
                /\ Called(docs[d], e) =>
                      ((<<d, e>> \in DOMAIN children) <=> ~Absent(docs[d][e]))
                /\ UnderParenthesized(docs[d], e) => <<d, e>> \notin DOMAIN children
          /\ \A n \in DOMAIN children :
                /\ Ascending(children[n])
                /\ \A i \in DOMAIN children[n] :
                      /\ children[n][i] \in DOMAIN children
                      /\ n # Root => docs[n[1]][children[n][i][2]].parent = n[2]

\* C10: layer returns absent for an element that is not a layer group, has no label
\* or has a label beginning with "(" and ending with ")", and a node for every other
\* element, an empty label included; so a parenthesized layer and everything below
\* it is never in the built tree, and the children of a node are in document order.
C10_LayerBuilderReturns == BuiltAsStated

BlankLabel(el) == el.groupmode = "layer" /\ el.haslabel /\ el.label = <<>>

NoBlankLabel ==
    \A i \in DOMAIN files : \A e \in DOMAIN files[i] : ~BlankLabel(files[i][e])

\* The same holds for documents without an empty label.
C10_HoldsWithoutBlankLabel == NoBlankLabel => BuiltAsStated

C10_WitnessNested ==
    /\ Loaded
    /\ \E d \in DOMAIN docs : \E e, c \in DOMAIN docs[d] :
          /\ docs[d][c].parent = e
          /\ Parenthesized(docs[d][e].label) /\ docs[d][e].groupmode = "layer"
          /\ ~Absent(docs[d][c])
          /\ <<d, c>> \notin DOMAIN children

(***************************************************************************)
(* find_svgs                                                               *)
(***************************************************************************)
\* A path is the sequence of its components; a component is a number, and paths
\* compare as their components do.  The file system: what is not in it is missing.
FileSystem ==
    (<<1>> :> "svg") @@ (<<2>> :> "dir") @@ (<<3>> :> "svg") @@ (<<4>> :> "txt")
    @@ (<<2, 1>> :> "svg") @@ (<<2, 2>> :> "dir") @@ (<<2, 3>> :> "svg")
    @@ (<<2, 4>> :> "txt") @@ (<<2, 2, 1>> :> "svg")

Missing == <<5>>

ArgPaths == {<<1>>, <<2>>, <<3>>, <<4>>, Missing, <<2, 2>>}

\* path.is_file() and path.suffix == ".svg"
IsSvgFile(p) == p \in DOMAIN FileSystem /\ FileSystem[p] = "svg"

\* path.is_dir()
IsDir(p) == p \in DOMAIN FileSystem /\ FileSystem[p] = "dir"

\* path.iterdir()
IterDir(p) ==
    {q \in DOMAIN FileSystem : Len(q) = Len(p) + 1 /\ SubSeq(q, 1, Len(p)) = p}

\* sorted(list(entries), reverse=True): the entries of one directory differ in
\* their last component.
RECURSIVE SortedReverse(_)
SortedReverse(S) ==
    IF S = {} THEN <<>>
    ELSE LET m == CHOOSE x \in S : \A y \in S : y[Len(y)] <= x[Len(x)]
         IN <<m>> \o SortedReverse(S \ {m})

InitFind ==
    /\ \E n \in 0..MaxNames : \E ps \in [1..n -> ArgPaths] : names = ps /\ fstack = ps
    /\ found = <<>>
    /\ confs = <<>>
    /\ pc = "find"
    /\ files = <<>>
    /\ docs = <<>>
    /\ children = (Root :> <<>>)
    /\ visible = (Root :> FALSE)
    /\ style = <<>>
    /\ stack = <<>>
    /\ yields = <<>>
    /\ svg = <<>>
    /\ pdf = <<>>
    /\ wlog = <<>>
    /\ tasks = <<>>
    /\ consumed = [format |-> "", names |-> <<>>]
    /\ run = 1
    /\ nfail = 0
    /\ threads = 0
    /\ NoCssCall
    /\ NoResolution

FindUnchanged ==
    UNCHANGED <<files, treeVars, walkVars, cacheVars, wlog, poolVars, names, cssVars, refVars, confs>>

\* path = stack.pop(); the path is a file named *.svg: yield path
FindYield ==
    /\ pc = "find"
    /\ fstack # <<>>
    /\ IsSvgFile(Top(fstack))
    /\ found' = Append(found, Top(fstack))
    /\ fstack' = SubSeq(fstack, 1, Len(fstack) - 1)
    /\ pc' = pc
    /\ FindUnchanged

\* path = stack.pop(); the path is a directory: its entries go on the stack
FindExpand ==
    /\ pc = "find"
    /\ fstack # <<>>
    /\ ~IsSvgFile(Top(fstack))
    /\ IsDir(Top(fstack))
    /\ fstack' = SubSeq(fstack, 1, Len(fstack) - 1) \o SortedReverse(IterDir(Top(fstack)))
    /\ UNCHANGED <<pc, found>>
    /\ FindUnchanged

\* path = stack.pop(); the path is neither: it is dropped
FindSkip ==
    /\ pc = "find"
    /\ fstack # <<>>
    /\ ~IsSvgFile(Top(fstack))
    /\ ~IsDir(Top(fstack))
    /\ fstack' = SubSeq(fstack, 1, Len(fstack) - 1)
    /\ UNCHANGED <<pc, found>>
    /\ FindUnchanged

\* while stack: the stack is empty and the generator ends
FindReturn ==
    /\ pc = "find"
    /\ fstack = <<>>
    /\ pc' = "found"
    /\ UNCHANGED <<fstack, found>>
    /\ FindUnchanged

NextFind ==
    \/ FindYield
    \/ FindExpand
    \/ FindSkip
    \/ FindReturn

SpecFind == InitFind /\ [][NextFind]_vars

RECURSIVE SortedAscending(_)
SortedAscending(S) ==
    IF S = {} THEN <<>>
    ELSE LET m == CHOOSE x \in S : \A y \in S : x[Len(x)] <= y[Len(y)]
         IN <<m>> \o SortedAscending(S \ {m})

\* One path expanded in place: recursively, depth-first, entries in sorted order.
RECURSIVE ExpandInPlace(_), ExpandAll(_)
ExpandInPlace(p) ==
    IF IsSvgFile(p) THEN <<p>>
    ELSE IF IsDir(p) THEN ExpandAll(SortedAscending(IterDir(p)))
    ELSE <<>>

ExpandAll(ps) == IF ps = <<>> THEN <<>> ELSE ExpandInPlace(Head(ps)) \o ExpandAll(Tail(ps))

Reverse(s) == [i \in DOMAIN s |-> s[Len(s) + 1 - i]]

\* C9: find_svgs yields the documents in the order the paths were given, each
\* directory expanded in place, recursively and depth-first in sorted order.
C9_FoundInGivenOrder ==
    (pc = "found") => found = ExpandAll(names)

\* What it yields is that of the given paths taken last first.
C9_FoundInReverseGivenOrder ==
    (pc = "found") => found = ExpandAll(Reverse(names))

C9_WitnessDirThenFile ==
    /\ pc = "found"
    /\ names = <<(<<2>>), (<<1>>)>>
    /\ found = <<(<<1>>), (<<2, 1>>), (<<2, 2, 1>>), (<<2, 3>>)>>

(***************************************************************************)
(* css_to_dict and dict_to_css                                             *)
(***************************************************************************)
\* A string is the sequence of its characters.
Alphabet == {"a", "b", ":", ";", " "}

RECURSIVE StringsOfLen(_)
StringsOfLen(n) ==
    IF n = 0 THEN {<<>>} ELSE {Append(s, c) : s \in StringsOfLen(n - 1), c \in Alphabet}

Strings(max) == UNION {StringsOfLen(n) : n \in 0..max}

\* s.split(sep): one part more than there are separators
RECURSIVE Split(_, _)
Split(s, sep) ==
    IF \A i \in DOMAIN s : s[i] # sep THEN <<s>>
    ELSE LET i == CHOOSE k \in DOMAIN s : s[k] = sep /\ \A j \in 1..(k - 1) : s[j] # sep
         IN <<SubSeq(s, 1, i - 1)>> \o Split(SubSeq(s, i + 1, Len(s)), sep)

\* part.strip()
RECURSIVE Strip(_)
Strip(s) ==
    IF s = <<>> THEN s
    ELSE IF Head(s) = " " THEN Strip(Tail(s))
    ELSE IF s[Len(s)] = " " THEN Strip(SubSeq(s, 1, Len(s) - 1))
    ELSE s

\* result[key] = value: a dict keeps the position a key was first inserted at.
DictSet(d, k, v) ==
    IF \E i \in DOMAIN d : d[i].key = k
    THEN [i \in DOMAIN d |-> IF d[i].key = k THEN [key |-> k, value |-> v] ELSE d[i]]
    ELSE Append(d, [key |-> k, value |-> v])

RECURSIVE CssEntriesLenient(_, _)
CssEntriesLenient(entries, acc) ==
    IF entries = <<>> THEN acc
    ELSE LET parts == Split(Head(entries), ":")
         IN CssEntriesLenient(Tail(entries),
                IF Len(parts) # 2 THEN acc
                ELSE [acc EXCEPT !.dict = DictSet(@, Strip(parts[1]), Strip(parts[2]))])

\* key, value = [part.strip() for part in entry.split(":")] unpacks exactly two parts.
RECURSIVE CssEntries(_, _)
CssEntries(entries, acc) ==
    IF entries = <<>> \/ acc.raised # "" THEN acc
    ELSE LET parts == Split(Head(entries), ":")
         IN CssEntries(Tail(entries),
                IF Len(parts) # 2 THEN [raised |-> "ValueError", dict |-> <<>>]
                ELSE [acc EXCEPT !.dict = DictSet(@, Strip(parts[1]), Strip(parts[2]))])

css_to_dict(s) ==
    IF s = <<>> THEN [raised |-> "", dict |-> <<>>]
    ELSE CssEntries(Split(s, ";"), [raised |-> "", dict |-> <<>>])

\* sep.join(parts)
RECURSIVE JoinWith(_, _)
JoinWith(parts, sep) ==
    IF parts = <<>> THEN <<>>
    ELSE IF Len(parts) = 1 THEN parts[1]
    ELSE parts[1] \o sep \o JoinWith(Tail(parts), sep)

dict_to_css(d) ==
    JoinWith([i \in DOMAIN d |-> d[i].key \o <<":", " ">> \o d[i].value], <<";", " ">>)

\* main has not started and find_svgs is not running.
IdleMain ==
    /\ files = <<>>
    /\ docs = <<>>
    /\ children = (Root :> <<>>)
    /\ visible = (Root :> FALSE)
    /\ style = <<>>
    /\ stack = <<>>
    /\ yields = <<>>
    /\ svg = <<>>
    /\ pdf = <<>>
    /\ wlog = <<>>
    /\ tasks = <<>>
    /\ consumed = [format |-> "", names |-> <<>>]
    /\ run = 1
    /\ nfail = 0
    /\ threads = 0
    /\ names = <<>>
    /\ fstack = <<>>
    /\ found = <<>>
    /\ confs = <<>>

InitCss ==
    /\ pc = "css"
    /\ css \in Strings(MaxLen)
    /\ parsed = NotParsed
    /\ printed = <<>>
    /\ IdleMain
    /\ NoResolution

CssUnchanged ==
    UNCHANGED <<files, treeVars, walkVars, cacheVars, wlog, poolVars, findVars, refVars, confs>>

\* parsed = css_to_dict(css)
CssParse ==
    /\ pc = "css"
    /\ parsed' = css_to_dict(css)
    /\ pc' = IF parsed'.raised # "" THEN "crashed" ELSE "parsed"
    /\ UNCHANGED <<css, printed>>
    /\ CssUnchanged

\* printed = dict_to_css(parsed)
CssPrint ==
    /\ pc = "parsed"
    /\ printed' = dict_to_css(parsed.dict)
    /\ pc' = "printed"
    /\ UNCHANGED <<css, parsed>>
    /\ CssUnchanged

NextCss ==
    \/ CssParse
    \/ CssPrint

SpecCss == InitCss /\ [][NextCss]_vars

\* The parse as it is described: empty segments are ignored, a segment is cut at its
\* first colon only, both sides are trimmed.
CutAtFirstColon(seg) ==
    LET i == CHOOSE k \in DOMAIN seg : seg[k] = ":" /\ \A j \in 1..(k - 1) : seg[j] # ":"
    IN [key |-> Strip(SubSeq(seg, 1, i - 1)), value |-> Strip(SubSeq(seg, i + 1, Len(seg)))]

RECURSIVE DescribedEntries(_, _)
DescribedEntries(entries, acc) ==
    IF entries = <<>> \/ acc.raised # "" THEN acc
    ELSE LET seg == Head(entries)
         IN DescribedEntries(Tail(entries),
                IF seg = <<>> THEN acc
                ELSE IF \A i \in DOMAIN seg : seg[i] # ":"
                THEN [raised |-> "MalformedStyle", dict |-> <<>>]
                ELSE LET kv == CutAtFirstColon(seg)
                     IN [acc EXCEPT !.dict = DictSet(@, kv.key, kv.value)])

DescribedParse(s) == DescribedEntries(Split(s, ";"), [raised |-> "", dict |-> <<>>])

CssCalled == pc \in {"parsed", "printed", "crashed"}

\* C11: for every style string whose non-empty segments all hold a colon,
\* css_to_dict gives the map described: segments split on ";" with empty ones
\* ignored, each cut at its first ":" only, both sides trimmed, keys in order of
\* first appearance with a later duplicate overwriting in place; "" gives {}.
C11_ParseAsDescribed ==
    (CssCalled /\ DescribedParse(css).raised = "") => parsed = DescribedParse(css)

\* The same holds for the strings in which every segment holds exactly one colon.
OneColonEach ==
    css = <<>> \/ \A i \in DOMAIN Split(css, ";") : Len(Split(Split(css, ";")[i], ":")) = 2

C11_HoldsForOneColonEach ==
    (CssCalled /\ OneColonEach) => parsed = DescribedParse(css)

C11_WitnessOverwrite ==
    /\ pc = "printed"
    /\ css = <<"a", ":", "b", ";", "a", ":">>
    /\ parsed.dict = <<[key |-> <<"a">>, value |-> <<>>]>>
    /\ printed = <<"a", ":", " ">>

(***************************************************************************)
(* load_presentation: the resolution of the use elements                   *)
(***************************************************************************)
\* An attribute that may be absent.
NoAttr == [has |-> FALSE, val |-> <<>>]
Attr(v) == [has |-> TRUE, val |-> v]

\* The style strings of the elements: "", "A: 1", "C: 4; A: 5", "A: 2; B: 3", "oops".
StyleNone == <<>>
StyleA1 == <<"A", ":", " ", "1">>
StyleC4A5 == <<"C", ":", " ", "4", ";", " ", "A", ":", " ", "5">>
StyleA2B3 == <<"A", ":", " ", "2", ";", " ", "B", ":", " ", "3">>
StyleOops == <<"o", "o", "p", "s">>

\* An element below the svg root: tag, id ("" is no id), xlink:href (href holds what
\* follows its first character), style, transform, and whether it has x or y.
RefKind(tag, id, hashref, href, sty, transform, xy) ==
    [tag |-> tag, id |-> id, hashref |-> hashref, href |-> href, style |-> sty,
     transform |-> transform, xy |-> xy]

RectT == RefKind("rect", "t", FALSE, "", StyleA1, NoAttr, FALSE)
RectT2 == RefKind("rect", "t", FALSE, "", StyleC4A5, Attr(<<"rotate(9)">>), FALSE)
SymbolG == RefKind("symbol", "g", FALSE, "", StyleNone, NoAttr, FALSE)
UseT == RefKind("use", "", TRUE, "t", StyleA2B3, Attr(<<"scale(2)">>), TRUE)
UseG == RefKind("use", "", TRUE, "g", StyleNone, NoAttr, FALSE)
UseDead == RefKind("use", "", TRUE, "x", StyleOops, NoAttr, FALSE)
UseNoHref == RefKind("use", "", FALSE, "", StyleNone, NoAttr, FALSE)
UseTOops == RefKind("use", "", TRUE, "t", StyleOops, NoAttr, FALSE)
UseNamedU == RefKind("use", "u", TRUE, "t", StyleNone, NoAttr, FALSE)
UseU == RefKind("use", "", TRUE, "u", StyleOops, NoAttr, FALSE)

RefKinds == {RectT, RectT2, SymbolG, UseT, UseG, UseDead, UseNoHref, UseTOops, UseNamedU, UseU}

IsContainer(D, p) == p = 0 \/ D[p].tag \in {"g", "symbol"}

\* The documents of n elements: element i is below the root (0) or an earlier group.
RECURSIVE RefDocsOfSize(_)
RefDocsOfSize(n) ==
    IF n = 0 THEN {<<>>}
    ELSE {Append(D, [parent |-> p] @@ k) :
             D \in RefDocsOfSize(n - 1), p \in 0..(n - 1), k \in RefKinds}

RefDocs(max) ==
    {D \in UNION {RefDocsOfSize(n) : n \in 1..max} :
        \A i \in DOMAIN D : IsContainer(D, D[i].parent)}

SvgRoot == RefKind("svg", "", FALSE, "", StyleNone, NoAttr, FALSE)

\* The element tree of a document: node 0 is the root, kids the child elements.
ToHeap(D) ==
    [i \in 0..Len(D) |->
        [kids |-> ChildElems(D, i)]
        @@ (IF i = 0 THEN SvgRoot ELSE [f \in DOMAIN D[i] \ {"parent"} |-> D[i][f]])]

\* The elements below n, in document order.
RECURSIVE Descendants(_, _), DescendantsOfAll(_, _)
Descendants(h, n) == DescendantsOfAll(h, h[n].kids)

DescendantsOfAll(h, ks) ==
    IF ks = <<>> THEN <<>>
    ELSE <<Head(ks)>> \o Descendants(h, Head(ks)) \o DescendantsOfAll(h, Tail(ks))

\* root.findall(".//svg:use", ns)
FindAllUse(h) == SelectSeq(Descendants(h, 0), LAMBDA n : h[n].tag = "use")

None == 0 - 1

\* root.find(".//*[@id='...']"): the first element below the root with that id
FindById(h, id) ==
    LET m == SelectSeq(Descendants(h, 0), LAMBDA n : h[n].id = id)
    IN IF m = <<>> THEN None ELSE m[1]

\* {c: p for p in tree.iter() for c in p}
ParentMap(h) ==
    LET all == {0} \cup {Descendants(h, 0)[i] : i \in DOMAIN Descendants(h, 0)}
    IN [c \in all \ {0} |-> CHOOSE q \in all : \E i \in DOMAIN h[q].kids : h[q].kids[i] = c]

IndexOf(s, x) == CHOOSE i \in DOMAIN s : s[i] = x
Remove(s, x) == SelectSeq(s, LAMBDA y : y # x)
InsertAt(s, i, y) == SubSeq(s, 1, i - 1) \o <<y>> \o SubSeq(s, i, Len(s))

NextId(h) == Cardinality(DOMAIN h)

\* copy.deepcopy(link_target): the copies take the ids from NextId(h) on, in
\* document order; the copy of t itself is NextId(h).
DeepCopy(h, t) ==
    LET pre == <<t>> \o Descendants(h, t)
        new(n) == NextId(h) + IndexOf(pre, n) - 1
    IN h @@ [j \in NextId(h)..(NextId(h) + Len(pre) - 1) |->
                [h[pre[j - NextId(h) + 1]] EXCEPT
                    !.kids = [i \in DOMAIN @ |-> new(@[i])]]]

\* " ".join(t for t in [x transform, translate(x,y), target transform] if t is not None)
Transform(x, t) ==
    JoinWith((IF x.transform.has THEN <<x.transform.val>> ELSE <<>>)
             \o (IF x.xy THEN <<(<<"translate(x,y)">>)>> ELSE <<>>)
             \o (IF t.transform.has THEN <<t.transform.val>> ELSE <<>>),
             <<" ">>)

RECURSIVE DictUpdateReferenceWins(_, _)
DictUpdateReferenceWins(a, b) ==
    IF b = <<>> THEN a
    ELSE DictUpdateReferenceWins(
            IF \E i \in DOMAIN a : a[i].key = Head(b).key THEN a
            ELSE Append(a, Head(b)), Tail(b))

\* use_css.update(target_css)
RECURSIVE DictUpdate(_, _)
DictUpdate(a, b) ==
    IF b = <<>> THEN a
    ELSE DictUpdate(DictSet(a, Head(b).key, Head(b).value), Tail(b))

\* The style set on the inlined copy; raised when css_to_dict raises on either style.
MergedStyle(x, t) ==
    LET use_css == css_to_dict(x.style)
        target_css == css_to_dict(t.style)
    IN IF use_css.raised # "" \/ target_css.raised # ""
       THEN [raised |-> "ValueError", css |-> <<>>]
       ELSE [raised |-> "", css |-> dict_to_css(DictUpdate(use_css.dict, target_css.dict))]

\* The documents whose references are resolved here.
InitResolve ==
    /\ pc = "parse"
    /\ svgfile \in {ToHeap(D) : D \in RefDocs(MaxRefElems)}
    /\ heap = <<>>
    /\ uses = <<>>
    /\ parent_map = <<>>
    /\ error = ""
    /\ IdleMain
    /\ NoCssCall

ResolveUnchanged ==
    UNCHANGED <<files, treeVars, walkVars, cacheVars, wlog, poolVars, findVars, cssVars,
                svgfile, confs>>

\* tree = ElementTree.parse(file); parent_map; root.findall(".//svg:use", ns)
ResolveBegin ==
    /\ pc = "parse"
    /\ pc' = "resolve"
    /\ heap' = svgfile
    /\ parent_map' = ParentMap(svgfile)
    /\ uses' = FindAllUse(svgfile)
    /\ UNCHANGED error
    /\ ResolveUnchanged

Resolving == pc = "resolve" /\ uses # <<>>

\* href = x.attrib[...href]: the use element has no xlink:href
ResolveKeyError ==
    /\ Resolving
    /\ ~heap[Head(uses)].hashref
    /\ pc' = "crashed"
    /\ error' = "KeyError"
    /\ UNCHANGED <<heap, uses, parent_map>>
    /\ ResolveUnchanged

\* if link_target is None: continue
ResolveDeadLink ==
    /\ Resolving
    /\ heap[Head(uses)].hashref
    /\ FindById(heap, heap[Head(uses)].href) = None
    /\ uses' = Tail(uses)
    /\ UNCHANGED <<pc, heap, parent_map, error>>
    /\ ResolveUnchanged

\* The use element x is taken out of its parent; the copy of the target is made.
Unlinked(h, x) == [h EXCEPT ![parent_map[x]].kids = Remove(@, x)]

\* css_to_dict raises on the style of the use element or of its target
ResolveMalformed ==
    /\ Resolving
    /\ LET x == Head(uses)
           t == FindById(heap, heap[x].href)
       IN /\ heap[x].hashref
          /\ t # None
          /\ MergedStyle(heap[x], heap[t]).raised # ""
          /\ heap' = DeepCopy(Unlinked(heap, x), t)
    /\ pc' = "crashed"
    /\ error' = "ValueError"
    /\ UNCHANGED <<uses, parent_map>>
    /\ ResolveUnchanged

\* The use element is replaced by a copy of its target.
ResolveReplace ==
    /\ Resolving
    /\ LET x == Head(uses)
           t == FindById(heap, heap[x].href)
           index == IndexOf(heap[parent_map[x]].kids, x)
           h1 == DeepCopy(Unlinked(heap, x), t)
           new_node == NextId(heap)
           merged == MergedStyle(heap[x], heap[t])
       IN /\ heap[x].hashref
          /\ t # None
          /\ merged.raised = ""
          /\ heap' = [h1 EXCEPT
                        ![new_node].transform = Attr(Transform(heap[x], heap[t])),
                        ![new_node].style = merged.css,
                        ![new_node].tag = IF @ = "symbol" THEN "g" ELSE @,
                        ![parent_map[x]].kids = InsertAt(@, index, new_node)]
    /\ uses' = Tail(uses)
    /\ UNCHANGED <<pc, parent_map, error>>
    /\ ResolveUnchanged

\* The for loop ends; load_presentation goes on to build the layers.
ResolveEnd ==
    /\ pc = "resolve"
    /\ uses = <<>>
    /\ pc' = "load"
    /\ UNCHANGED <<heap, uses, parent_map, error>>
    /\ ResolveUnchanged

NextResolve ==
    \/ ResolveBegin
    \/ ResolveKeyError
    \/ ResolveDeadLink
    \/ ResolveMalformed
    \/ ResolveReplace
    \/ ResolveEnd

SpecResolve == InitResolve /\ [][NextResolve]_vars

(***************************************************************************)
(* Claims about the resolution of the use elements                         *)
(***************************************************************************)
ResolutionEnded == heap # <<>> /\ pc \in {"load", "crashed"}
ResolutionDone == heap # <<>> /\ pc = "load"

\* The use elements of the document as it was read, and their targets there.
OriginalUses == {FindAllUse(svgfile)[i] : i \in DOMAIN FindAllUse(svgfile)}

TargetOf(x) == IF svgfile[x].hashref THEN FindById(svgfile, svgfile[x].href) ELSE None

HasTarget(x) == TargetOf(x) # None

OriginalPlace(x) ==
    LET p == ParentMap(svgfile)[x]
    IN [parent |-> p, index |-> IndexOf(svgfile[p].kids, x)]

SameNumberOfChildren(p) == Len(heap[p].kids) = Len(svgfile[p].kids)

LeftInPlace(x) ==
    LET at == OriginalPlace(x)
    IN /\ SameNumberOfChildren(at.parent)
       /\ heap[at.parent].kids[at.index] = x
       /\ [f \in DOMAIN heap[x] \ {"kids"} |-> heap[x][f]]
            = [f \in DOMAIN svgfile[x] \ {"kids"} |-> svgfile[x][f]]

\* At the place of x there is one new element, a copy of an element with the id x
\* names, and x is gone from its parent.
ReplacedInPlace(x) ==
    LET at == OriginalPlace(x)
        n == heap[at.parent].kids[at.index]
    IN /\ SameNumberOfChildren(at.parent)
       /\ n \notin DOMAIN svgfile
       /\ heap[n].id = svgfile[x].href
       /\ heap[n].tag = (IF svgfile[TargetOf(x)].tag = "symbol" THEN "g"
                         ELSE svgfile[TargetOf(x)].tag)
       /\ \A i \in DOMAIN heap[at.parent].kids : heap[at.parent].kids[i] # x

SiblingsKept ==
    \A p \in DOMAIN svgfile : \A i \in DOMAIN svgfile[p].kids :
        svgfile[svgfile[p].kids[i]].tag # "use" =>
            /\ SameNumberOfChildren(p)
            /\ heap[p].kids[i] = svgfile[p].kids[i]

DanglingLeftOthersResolved ==
    \A x \in OriginalUses : IF HasTarget(x) THEN ReplacedInPlace(x) ELSE LeftInPlace(x)

\* C13: a use element whose target id names no element of the document, or that has
\* no href attribute at all, is left in place unchanged; the resolution goes on, and
\* every other use element with an existing target is resolved.
C13_DanglingIsRecoverable ==
    ResolutionEnded =>
        /\ error # "KeyError"
        /\ ResolutionDone => DanglingLeftOthersResolved

\* No use element names the id of a use element.
NoChain == \A x \in OriginalUses : HasTarget(x) => svgfile[TargetOf(x)].tag # "use"

\* The same holds when every use element has an href and none names a use element.
C13_HoldsWithHrefs ==
    (ResolutionDone /\ NoChain) => DanglingLeftOthersResolved

C13_WitnessDeadThenLive ==
    /\ ResolutionDone
    /\ NoChain
    /\ \E x, y \in OriginalUses :
          /\ OriginalPlace(x).parent = OriginalPlace(y).parent
          /\ OriginalPlace(x).index < OriginalPlace(y).index
          /\ ~HasTarget(x) /\ LeftInPlace(x)
          /\ HasTarget(y) /\ ReplacedInPlace(y)

\* The merge as it is described: the reference's keys in their order, the target's
\* value on a key of both, then the keys of the target alone in the target's order.
DescribedMerge(r, t) ==
    LET R == css_to_dict(r).dict
        T == css_to_dict(t).dict
        InT(k) == \E i \in DOMAIN T : T[i].key = k
        InR(k) == \E i \in DOMAIN R : R[i].key = k
        ValT(k) == T[CHOOSE i \in DOMAIN T : T[i].key = k].value
    IN dict_to_css([i \in DOMAIN R |->
                       IF InT(R[i].key) THEN [key |-> R[i].key, value |-> ValT(R[i].key)]
                       ELSE R[i]]
                   \o SelectSeq(T, LAMBDA e : ~InR(e.key)))

Inlining == Resolving /\ uses' = Tail(uses) /\ DOMAIN heap' # DOMAIN heap

\* C14: whenever a use element is replaced, the style of the inlined copy is the
\* style of the use element updated with the style of its target: the target's value
\* wins on a key of both, the keys of the use element alone survive, and the order is
\* the use element's keys followed by the target's own.
C14_InlinedStyleIsMerge ==
    [][Inlining =>
          LET x == Head(uses)
              t == FindById(heap, heap[x].href)
          IN heap'[NextId(heap)].style = DescribedMerge(heap[x].style, heap[t].style)]_vars

\* "A: 2; B: 3" on the use element and "A: 1" on its target give "A: 1; B: 3".
C14_Witness ==
    /\ ResolutionDone
    /\ \E x \in OriginalUses :
          /\ HasTarget(x)
          /\ svgfile[x].style = StyleA2B3
          /\ svgfile[TargetOf(x)].style = StyleA1
          /\ heap[heap[OriginalPlace(x).parent].kids[OriginalPlace(x).index]].style
               = <<"A", ":", " ", "1", ";", " ", "B", ":", " ", "3">>

\* "A: 2; B: 3" with "C: 4; A: 5" gives "A: 5; B: 3; C: 4".
C14_WitnessTargetOnlyKeyLast ==
    /\ ResolutionDone
    /\ \E n \in DOMAIN heap \ DOMAIN svgfile :
          heap[n].style = <<"A", ":", " ", "5", ";", " ", "B", ":", " ", "3", ";", " ",
                            "C", ":", " ", "4">>

\* C17: the resolution ends on every document, and unless a style error aborts it,
\* every use element of the document as read that has an existing target is replaced
\* by exactly one copy at its place under its parent, the order of siblings kept.
C17_EachReferenceResolvedOnce ==
    (ResolutionEnded /\ error # "ValueError") =>
        /\ \A x \in OriginalUses : HasTarget(x) => ReplacedInPlace(x)
        /\ SiblingsKept

\* The same holds for the documents in which no use element names a use element,
\* when the loop runs to its end.
C17_HoldsWithoutChains ==
    (ResolutionDone /\ NoChain) =>
        /\ \A x \in OriginalUses : HasTarget(x) => ReplacedInPlace(x)
        /\ SiblingsKept

\* A use element inside its own target: the copy is made without it.
C17_WitnessSelfContained ==
    /\ ResolutionDone
    /\ \E x \in OriginalUses :
          /\ TargetOf(x) = OriginalPlace(x).parent
          /\ ReplacedInPlace(x)
          /\ heap[heap[OriginalPlace(x).parent].kids[OriginalPlace(x).index]].kids = <<>>

\* A use element naming a use element that was replaced before it stays as it is.
C17_WitnessChainLeft ==
    /\ ResolutionDone
    /\ \E x \in OriginalUses :
          /\ HasTarget(x)
          /\ svgfile[TargetOf(x)].tag = "use"
          /\ LeftInPlace(x)

\* Each step of the loop takes one use element off the list; none is added.
C17_UsesOnlyShrink ==
    [][pc = "resolve" => (uses' = uses \/ uses' = Tail(uses))]_vars

(***************************************************************************)
(* main on a file with use elements: resolution, then the rest of the run  *)
(***************************************************************************)
RectO == RefKind("rect", "o", FALSE, "", StyleOops, NoAttr, FALSE)
UseO == RefKind("use", "", TRUE, "o", StyleNone, NoAttr, FALSE)

Below(p, k) == [parent |-> p] @@ k

\* The use elements and targets of the file main is given.
AbortDocs ==
    {<<>>,
     <<Below(0, RectT), Below(0, UseT)>>,
     <<Below(0, RectT), Below(0, UseTOops)>>,
     <<Below(0, RectO), Below(0, UseO)>>,
     <<Below(0, UseO), Below(0, RectO)>>,
     <<Below(0, RectT), Below(0, UseT), Below(0, UseTOops)>>,
     <<Below(0, RectT), Below(0, UseNamedU), Below(0, UseU)>>,
     <<Below(0, RectT), Below(0, UseU), Below(0, UseNamedU)>>,
     <<Below(0, SymbolG), Below(1, RectO), Below(0, UseG), Below(0, UseO)>>,
     <<Below(0, UseDead)>>,
     <<Below(0, UseNoHref), Below(0, RectT), Below(0, UseTOops)>>}

\* main starts on one file: its use elements are svgfile, its layers DocIntroAB or
\* DocPlain; the cache directory is empty.
InitAbort ==
    /\ pc = "parse"
    /\ svgfile \in {ToHeap(D) : D \in AbortDocs}
    /\ heap = <<>>
    /\ uses = <<>>
    /\ parent_map = <<>>
    /\ error = ""
    /\ files \in {<<DocIntroAB>>, <<DocPlain>>}
    /\ docs = <<>>
    /\ children = (Root :> <<>>)
    /\ visible = (Root :> FALSE)
    /\ style = <<>>
    /\ stack = <<>>
    /\ yields = <<>>
    /\ svg = <<>>
    /\ pdf = <<>>
    /\ wlog = <<>>
    /\ tasks = <<>>
    /\ consumed = [format |-> "", names |-> <<>>]
    /\ run = 1
    /\ nfail = 0
    /\ threads = 0
    /\ names = <<>>
    /\ fstack = <<>>
    /\ found = <<>>
    /\ confs = <<>>
    /\ NoCssCall

NextAbort ==
    \/ ResolveBegin
    \/ ResolveKeyError
    \/ ResolveDeadLink
    \/ ResolveMalformed
    \/ ResolveReplace
    \/ ResolveEnd
    \/ Load
    \/ CreatePool
    \/ SplitStep
    \/ PoolStart
    \/ RenderDone
    \/ RenderFailed
    \/ Join
    \/ Merge

SpecAbort == InitAbort /\ [][NextAbort]_vars

NoColon(seg) == \A i \in DOMAIN seg : seg[i] # ":"

\* The style has a non-empty segment without a ":".
MalformedStyle(sty) ==
    \E i \in DOMAIN Split(sty, ";") : Split(sty, ";")[i] # <<>> /\ NoColon(Split(sty, ";")[i])

MalformedReference(x) ==
    /\ HasTarget(x)
    /\ MalformedStyle(svgfile[x].style) \/ MalformedStyle(svgfile[TargetOf(x)].style)

\* The run is still loading or has ended in loading, and has produced nothing.
AbortedInLoading ==
    /\ pc \in {"parse", "resolve", "crashed"}
    /\ svg = <<>>
    /\ pdf = <<>>
    /\ tasks = <<>>
    /\ consumed.format = ""

C12_Original ==
    (\E x \in OriginalUses : MalformedReference(x)) => AbortedInLoading

\* C12 (amended): if the file has a use element with an existing target that is not
\* itself a use element, and the style of the use element or of the target has a
\* non-empty segment without ":", the run ends while loading: no cache slot is
\* written, no render is submitted and nothing is merged.
C12_MalformedStyleAbortsRun ==
    (\E x \in OriginalUses :
        MalformedReference(x) /\ svgfile[TargetOf(x)].tag # "use") => AbortedInLoading

C12_Witness ==
    /\ pc = "crashed"
    /\ error = "ValueError"
    /\ \E x \in OriginalUses :
          /\ MalformedReference(x)
          /\ svgfile[TargetOf(x)].tag # "use"
          /\ Head(uses) = x
    /\ \E p \in DOMAIN svgfile : \E i \in DOMAIN heap[p].kids :
          heap[p].kids[i] \notin DOMAIN svgfile

\* Without such a use element the run goes on to write its slots and to merge.
C12_WitnessRunCompletes ==
    /\ pc = "done"
    /\ \E x \in OriginalUses : HasTarget(x)
    /\ DOMAIN svg = {0, 1}

(***************************************************************************)
(* Claims about the document Tree.write writes                             *)
(***************************************************************************)
\* The elements below the root of D, in document order.
RECURSIVE ElemsInOrder(_, _)
ElemsInOrder(D, cs) ==
    IF cs = <<>> THEN <<>>
    ELSE <<Head(cs)>> \o ElemsInOrder(D, ChildElems(D, Head(cs))) \o ElemsInOrder(D, Tail(cs))

RECURSIVE DepthOf(_, _)
DepthOf(D, e) == IF D[e].parent = 0 THEN 1 ELSE 1 + DepthOf(D, D[e].parent)

MarkedHidden(d, e) == style[<<d, e>>] = "display:none"

\* e is marked hidden or lies below an element that is.
RECURSIVE UnderHidden(_, _)
UnderHidden(d, e) ==
    MarkedHidden(d, e) \/ (docs[d][e].parent # 0 /\ UnderHidden(d, docs[d][e].parent))

\* Every element that is neither marked nor below a marked one, as it is, in order.
KeptElements(d) ==
    SelectSeq(ElemsInOrder(docs[d], ChildElems(docs[d], 0)), LAMBDA e : ~UnderHidden(d, e))

DescribedFiltered(d) ==
    <<RootToken>> \o [i \in DOMAIN KeptElements(d) |->
                        Token(style, d, KeptElements(d)[i], DepthOf(docs[d], KeptElements(d)[i]))]

JustWritten == pc = "split" /\ wlog # <<>> /\ ShownDocs(visible) # <<>> /\ 0 \in DOMAIN svg

\* C15: the document Tree.write produces from the visible top-level document holds no
\* element below the root whose own style is exactly display:none, and holds every
\* element of the source that is neither so marked nor below an element so marked;
\* what is below a marked element goes with it, whatever its own style.
C15_FilteredDocument ==
    JustWritten =>
        /\ svg[0].bytes = DescribedFiltered(ShownDocs(visible)[1][1])
        /\ \A i \in 2..Len(svg[0].bytes) : svg[0].bytes[i].style # "display:none"

C15_Witness ==
    /\ JustWritten
    /\ LET d == ShownDocs(visible)[1][1]
       IN /\ \E e \in DOMAIN docs[d] : ~MarkedHidden(d, e) /\ UnderHidden(d, e)
          /\ Len(KeptElements(d)) >= 1
          /\ svg[0].bytes = DescribedFiltered(d)

(***************************************************************************)
(* Claims about the hand-off of slides to the render pool                  *)
(***************************************************************************)
\* Tree.write reports Changed exactly when it writes the file (its mtime moves).
SlotWritten(i) == i \in DOMAIN svg' /\ (i \notin DOMAIN svg \/ svg'[i] # svg[i])

Submitted(i) == tasks' = Append(tasks, [idx |-> i, st |-> "queued"])

OneTaskPerIndex ==
    \A i, j \in DOMAIN tasks : i # j => tasks[i].idx # tasks[j].idx

\* An iteration of the split loop for slide index Len(yields).
SplitIteration == pc = "split" /\ yields' # yields

\* C16: within a run a render task for index i is submitted if and only if
\* Tree.write for slot i reported Changed; there is at most one task per index, so no
\* two tasks read or write the same numbered file; and the driver does not write slot
\* i once the task for i is submitted.
C16_RenderHandOff ==
    /\ []OneTaskPerIndex
    /\ [][/\ SplitIteration => (SlotWritten(Len(yields)) <=> Submitted(Len(yields)))
          /\ (SplitIteration /\ ~SlotWritten(Len(yields))) => tasks' = tasks
          /\ ~SplitIteration => (Len(tasks') = Len(tasks) \/ tasks' = <<>>)
          /\ \A t \in DOMAIN tasks :
                tasks[t].idx \in DOMAIN svg' /\ svg'[tasks[t].idx] = svg[tasks[t].idx]]_vars

\* A second run over unchanged input: both slots were written (and submitted) in the
\* first run, neither is written nor submitted now.
C16_Witness ==
    /\ run = 2
    /\ pc = "join"
    /\ Len(yields) = 2
    /\ tasks = <<>>
    /\ svg[0].mtime = 1 /\ svg[1].mtime = 1

\* Three slides written and submitted, two of the renders running at once.
C16_WitnessConcurrent ==
    /\ Len(tasks) = 3
    /\ Cardinality(Running) = 2

(***************************************************************************)
(* Claims about the Tree nodes without an element                          *)
(***************************************************************************)
\* The nodes built with Tree(): self.element is None.
WithoutElement == {n \in DOMAIN children : n[2] = 0}

SyntheticRoots == {Root} \cup {children[Root][i] : i \in DOMAIN children[Root]}

\* The walk has entered n and not left it.
Inside(n) == \E i \in DOMAIN stack : stack[i].node = n /\ stack[i].st # "new"

OnlyRootsWithoutElement ==
    /\ WithoutElement = SyntheticRoots
    /\ \A n \in DOMAIN children : n # Root =>
          \A i \in DOMAIN children[n] : children[n][i][2] # 0

C18_Original ==
    /\ OnlyRootsWithoutElement
    /\ \A n \in WithoutElement : ~visible[n]

\* C18 (amended): in every state of a run a Tree without an element is the
\* presentation or the root of one loaded document, and its visible flag is true
\* exactly while the walk is inside it.
C18_RootsVisibleWhileInside ==
    /\ OnlyRootsWithoutElement
    /\ \A n \in WithoutElement : visible[n] <=> Inside(n)

\* Tree.write has just found the visible document root and written its document.
C18_Witness ==
    /\ JustWritten
    /\ Len(docs) = 2
    /\ visible[Root]
    /\ visible[<<2, 0>>]
    /\ ~visible[<<1, 0>>]
    /\ wlog[1].ret

(***************************************************************************)
(* Claims about what the merge step takes from the cache directory         *)
(***************************************************************************)
ConsumedIndices == {IntOf(consumed.names[i]) : i \in DOMAIN consumed.names}

\* C19: after any sequence of runs over one cache directory, the numbered files the
\* merge step of the latest run consumes are exactly those of the indices 0..N-1,
\* N being the number of slides of that run; a slot an earlier, longer run left
\* behind is not merged.
C19_MergeTakesThisRunsSlides ==
    (pc = "done") => ConsumedIndices = 0..(Len(Leaves) - 1)

\* The same holds for the html merge of a run that started on an empty directory.
C19_HoldsOnFreshDirectory ==
    (pc = "done" /\ StartedEmpty /\ consumed.format = "html") =>
        ConsumedIndices = 0..(Len(Leaves) - 1)

\* A run of two slides after a run of three: slot 2 of the first run is merged too.
C19_WitnessStaleSlotMerged ==
    /\ pc = "done"
    /\ run = 2
    /\ consumed.format = "html"
    /\ Len(Leaves) = 2
    /\ LeftoverSlot \notin DOMAIN svg
    /\ ConsumedIndices = {0, 1, 2}


(***************************************************************************)
(* Walking the same forest more than once: every iter(presentation) makes  *)
(* a new generator over the same Tree instances, and a generator may be    *)
(* dropped while it is suspended at a yield.                               *)
(***************************************************************************)
MaxWalks == 2

KindsWalk == {LayerKind, ShapeKind}

InitRewalk == \E fs \in Forests(KindsWalk, MaxDocs, MaxElems) : InitWith(fs, <<>>)

\* What the caller of next() finds at a yield: the yielded node, every _visible
\* flag and every style attribute.
Snapshot(w) == [node |-> Top(w.stack).node, visible |-> w.visible, style |-> w.style]

\* iter(presentation): a new generator over the same Tree instances, not yet run.
IterCall ==
    /\ \/ pc = "load" /\ files = <<>>
       \/ pc \in {"walked", "abandoned"}
    /\ Len(confs) < MaxWalks
    /\ pc' = "split"
    /\ stack' = <<[node |-> Root, k |-> 0, st |-> "new"]>>
    /\ yields' = <<>>
    /\ confs' = Append(confs, [seen |-> <<>>, done |-> FALSE])
    /\ UNCHANGED <<files, treeVars, cacheVars, wlog, poolVars, findVars, cssVars, refVars>>

\* next(generator): __iter__ runs to its next yield, or to its end.
NextCall ==
    /\ pc = "split"
    /\ stack # <<>>
    /\ LET w == RunToYield(Walk)
       IN /\ SetWalk(w)
          /\ IF Suspended(w)
             THEN /\ pc' = pc
                  /\ yields' = Append(yields, Top(w.stack).node)
                  /\ confs' = [confs EXCEPT ![Len(confs)].seen = Append(@, Snapshot(w))]
             ELSE /\ pc' = "walked"
                  /\ yields' = yields
                  /\ confs' = [confs EXCEPT ![Len(confs)].done = TRUE]
    /\ UNCHANGED <<files, docs, children, cacheVars, wlog, poolVars, findVars, cssVars, refVars>>

\* The generator is dropped at a yield (break in the caller's loop): GeneratorExit is
\* raised at the yield of every frame, and no frame reaches self.visible = False.
Abandon ==
    /\ pc = "split"
    /\ Suspended(Walk)
    /\ pc' = "abandoned"
    /\ stack' = <<>>
    /\ UNCHANGED <<files, treeVars, yields, cacheVars, wlog, poolVars, findVars, cssVars,
                   refVars, confs>>

NextRewalk ==
    \/ Load
    \/ IterCall
    \/ NextCall
    \/ Abandon

SpecRewalk == InitRewalk /\ [][NextRewalk]_vars

(***************************************************************************)
(* Claims about repeated and abandoned walks                               *)
(***************************************************************************)
AllHidden == \A n \in DOMAIN visible : ~visible[n]

\* Walk k ran to completion and started where a completed walk (or the loading)
\* had left the forest.
CompleteFromCompleted(k) ==
    /\ k \in DOMAIN confs
    /\ confs[k].done
    /\ k > 1 => confs[k - 1].done

FirstWalkCompleted == confs # <<>> /\ confs[1].done

\* C20: when a walk has run to completion every node's visible flag is false again;
\* a complete walk that follows a completed one yields the same sequence of
\* configurations (yielded node, flags, styles) as the first walk did; a walk
\* abandoned at a yield leaves the nodes of the chain to the yielded node visible.
C20_WalkRestoresFlags ==
    /\ (pc = "walked") => AllHidden
    /\ FirstWalkCompleted =>
         \A k \in DOMAIN confs : CompleteFromCompleted(k) => confs[k].seen = confs[1].seen
    /\ (pc = "abandoned") =>
         /\ yields # <<>>
         /\ ChainTo(yields[Len(yields)]) \subseteq VisibleSet
         /\ Cardinality(VisibleSet) >= 1

\* Two complete walks over a forest with at least two slides.
C20_Witness ==
    /\ pc = "walked"
    /\ Len(confs) = 2
    /\ confs[1].done /\ confs[2].done
    /\ Len(confs[1].seen) >= 2
    /\ confs[2].seen = confs[1].seen
    /\ AllHidden

\* A walk abandoned at its second slide, below a layer.
C20_WitnessAbandoned ==
    /\ pc = "abandoned"
    /\ Len(yields) = 2
    /\ Cardinality(ChainTo(yields[2])) >= 3
    /\ VisibleSet = ChainTo(yields[2])

\* Not claimed: a walk that follows an abandoned one does not see the first walk's
\* configurations (the abandoned chain is still visible at its first yields).
C20_WitnessStaleAfterAbandon ==
    /\ Len(confs) = 2
    /\ ~confs[1].done
    /\ confs[2].done
    /\ \E i \in DOMAIN confs[2].seen :
          Cardinality({n \in DOMAIN visible : confs[2].seen[i].visible[n]})
              > Cardinality(ChainTo(confs[2].seen[i].node))

====
